---- MODULE Spec2Model ----
(***************************************************************************)
(* Model of src/steam_api.py: class SteamAPI, a client of two Steam Web    *)
(* API endpoints with an instance-local cache of the app list.             *)
(*                                                                         *)
(* Python values are encoded with one shape per kind:                      *)
(*   - an optional value (None, or a missing dict key) is a tuple: <<>>    *)
(*     is None/missing and <<v>> is the value v;                           *)
(*   - a game name is a sequence of one-character strings, so that         *)
(*     str.lower() is computed character by character;                     *)
(*   - a JSON object is a record whose fields are optional values.         *)
(* An HTTP exchange is an input of the call: [error, status, body], where  *)
(* error says that requests.get itself raised (no connection).             *)
(***************************************************************************)
EXTENDS Integers, Sequences, FiniteSets, TLC

\* ------------------------------------------------------------------ bounds
MaxApps == 2          \* longest app list a response carries (sequential calls)
MaxRequests == 2      \* app-list requests a client issues before the model stops
MaxThreadApps == 1    \* longest app list a response carries (two-thread runs)

\* ------------------------------------------------------------ value shapes
None == <<>>
Some(v) == <<v>>

Threads == {1, 2}

\* ------------------------------------------------------------ input domains
AppNames == { <<"c", "s">>, <<"C", "S">>, <<"c">> }
AppIds == {0, 10}
GameNames == { <<"c", "s">>, <<"C", "s">>, <<"C", "S">>, <<"c">> }
GameNameArgs == {None, Some(<<>>)} \cup {Some(n) : n \in GameNames}
Usernames == {"gabe", "x"}
SteamIds == {"", "76561197960287930"}

SeqsUpTo(S, n) == UNION {[1..k -> S] : k \in 0..n}

WellFormedApps == {[name |-> Some(n), appid |-> Some(i)] : n \in AppNames, i \in AppIds}
MalformedApps ==
    { [name |-> None, appid |-> Some(10)],
      [name |-> Some(<<"c", "s">>), appid |-> None] }
AppRecords == WellFormedApps \cup MalformedApps

NoBody == [applist |-> None]
AppListBodies(n) ==
    {NoBody, [applist |-> Some([apps |-> None])]}
      \cup {[applist |-> Some([apps |-> Some(l)])] : l \in SeqsUpTo(AppRecords, n)}
AppListResponses(n) ==
    {[error |-> TRUE, status |-> 0, body |-> NoBody]}
      \cup {[error |-> FALSE, status |-> s, body |-> NoBody] : s \in {404, 500}}
      \cup {[error |-> FALSE, status |-> 200, body |-> b] : b \in AppListBodies(n)}

NoVanity == [response |-> None]
VanityBodies ==
    {NoVanity, [response |-> Some([steamid |-> None])]}
      \cup {[response |-> Some([steamid |-> Some(x)])] : x \in SteamIds}
VanityResponses ==
    {[error |-> TRUE, status |-> 0, body |-> NoVanity]}
      \cup {[error |-> FALSE, status |-> s, body |-> NoVanity] : s \in {404, 500}}
      \cup {[error |-> FALSE, status |-> 200, body |-> b] : b \in VanityBodies}

\* -------------------------------------------------------------------- state
VARIABLES
    app_list_cache,     \* self.app_list_cache: None or Some(list of app records)
    app_list_requests,  \* number of GETs sent to APP_LIST_URL by this client
    all_empty,          \* history: no get_app_list invocation has returned a non-empty list
    last,               \* the call that completed last: inputs, outcome, values before it
    pc,                 \* per thread: position inside get_app_list
    passed,             \* per thread: took the `if not self.app_list_cache` branch
    fetched,            \* per thread: the list parsed from its own response
    returned,           \* per thread: the value its call returned
    writers             \* history: threads in the order they stored into the cache

vars == <<app_list_cache, app_list_requests, all_empty, last, pc, passed, fetched,
          returned, writers>>
seqVars == <<app_list_cache, app_list_requests, all_empty, last>>
threadVars == <<pc, passed, fetched, returned, writers>>

\* ------------------------------------------------------- library behaviour
\* requests.get(url) followed by response.raise_for_status(): the exception the
\* pair raises for an exchange, "none" when the response is handed on.
Raised(resp) ==
    IF resp.error THEN "ConnectionError"
    ELSE IF resp.status >= 400 /\ resp.status < 600 THEN "HTTPError"
    ELSE "none"

\* `except requests.RequestException`: the exceptions the handler catches.
CaughtOnlyConnectionError(exc) == exc = "ConnectionError"
Caught(exc) == exc \in {"ConnectionError", "HTTPError"}

\* the transport status a call records for its request
Transport(resp) == IF Raised(resp) = "none" THEN "ok" ELSE Raised(resp)

\* str.lower(), character by character
LowerChar(c) ==
    CASE c = "C" -> "c"
      [] c = "S" -> "s"
      [] OTHER -> c
Lower(s) == [i \in 1..Len(s) |-> LowerChar(s[i])]

\* ------------------------------------------------------------ get_steam_id
\* `if steam_id:` on the value of data['response'].get('steamid')
FoundIfPresent(steam_id) == steam_id # None
Found(steam_id) == steam_id # None /\ steam_id[1] # ""

get_steam_id(username, resp) ==
    LET exc == Raised(resp) IN
    IF exc # "none"
    THEN [outcome |-> IF Caught(exc) THEN "returned" ELSE exc, steam_id |-> None]
    ELSE IF resp.body.response = None
    THEN [outcome |-> "KeyError", steam_id |-> None]
    ELSE LET steam_id == resp.body.response[1].steamid IN
         IF Found(steam_id)
         THEN [outcome |-> "returned", steam_id |-> Some(steam_id[1])]
         ELSE [outcome |-> "returned", steam_id |-> None]

\* ------------------------------------------------------------ get_app_list
\* `if not self.app_list_cache`: None and the empty list are both falsy
AlwaysFetch(cache) == TRUE
FetchIfNone(cache) == cache = None
NeedFetch(cache) == cache = None \/ Len(cache[1]) = 0

\* the exchanges a call can consume: none when it does not fetch
NoResponse == [error |-> FALSE, status |-> 200, body |-> NoBody]
Exchanges(cache, n) == IF NeedFetch(cache) THEN AppListResponses(n) ELSE {NoResponse}

\* data['applist']['apps'] raises KeyError when either key is missing
HasApps(body) == body.applist # None /\ body.applist[1].apps # None
Apps(body) == body.applist[1].apps[1]

\* self.app_list_cache = data['applist']['apps']
StoreUnlessSet(cache, apps) == IF NeedFetch(cache) THEN Some(apps) ELSE cache
StoreCache(cache, apps) == Some(apps)

\* the cache after the except handler ran: the handler assigns nothing
HandlerClearsCache(cache) == Some(<<>>)
CacheAfterFailure(cache) == cache

\* One sequential call. sent: GETs issued; transport: "none" when no request.
get_app_list(cache, resp) ==
    IF NeedFetch(cache)
    THEN LET exc == Raised(resp) IN
         IF exc # "none"
         THEN [outcome |-> IF Caught(exc) THEN "returned" ELSE exc, apps |-> <<>>,
               cache |-> CacheAfterFailure(cache), sent |-> 1, transport |-> exc]
         ELSE IF ~HasApps(resp.body)
         THEN [outcome |-> "KeyError", apps |-> <<>>, cache |-> cache, sent |-> 1,
               transport |-> "ok"]
         ELSE LET stored == StoreCache(cache, Apps(resp.body)) IN
              [outcome |-> "returned", apps |-> stored[1], cache |-> stored,
               sent |-> 1, transport |-> "ok"]
    ELSE [outcome |-> "returned", apps |-> cache[1], cache |-> cache, sent |-> 0,
          transport |-> "none"]

\* ------------------------------------------------------------- find_app_id
\* `if not game_name or game_name == ""`
ShortCircuitOnlyNone(game_name) == game_name = None
ShortCircuit(game_name) == game_name = None \/ Len(game_name[1]) = 0

\* a dict is a function from its keys; d[key] = value overwrites
EmptyDict == [k \in {} |-> 0]
SetDefault(d, key, value) ==
    IF key \in DOMAIN d THEN d ELSE [k \in DOMAIN d \cup {key} |-> IF k = key THEN value ELSE d[k]]
DictPut(d, key, value) ==
    [k \in DOMAIN d \cup {key} |-> IF k = key THEN value ELSE d[k]]
DictGet(d, key) == IF key \in DOMAIN d THEN Some(d[key]) ELSE None

\* {app['name'].lower(): app['appid'] for app in apps}, in iteration order
RECURSIVE AppDict(_)
AppDict(apps) ==
    IF Len(apps) = 0 THEN EmptyDict
    ELSE LET app == apps[Len(apps)] IN
         DictPut(AppDict(SubSeq(apps, 1, Len(apps) - 1)), Lower(app.name[1]), app.appid[1])

\* app['name'] or app['appid'] raises KeyError on a record without the key
RecordKeyError(apps) == \E i \in 1..Len(apps) : apps[i].name = None \/ apps[i].appid = None

\* the key looked up: game_name.lower()
LookupKeyAsGiven(name) == name
LookupKey(name) == Lower(name)

find_app_id(game_name, cache, resp) ==
    IF ShortCircuit(game_name)
    THEN [outcome |-> "returned", app_id |-> None, apps |-> <<>>, cache |-> cache,
          sent |-> 0, transport |-> "none", listed |-> FALSE]
    ELSE LET r == get_app_list(cache, resp) IN
         IF r.outcome # "returned"
         THEN [outcome |-> r.outcome, app_id |-> None, apps |-> <<>>, cache |-> r.cache,
               sent |-> r.sent, transport |-> r.transport, listed |-> FALSE]
         ELSE IF RecordKeyError(r.apps)
         THEN [outcome |-> "KeyError", app_id |-> None, apps |-> r.apps, cache |-> r.cache,
               sent |-> r.sent, transport |-> r.transport, listed |-> TRUE]
         ELSE [outcome |-> "returned",
               app_id |-> DictGet(AppDict(r.apps), LookupKey(game_name[1])),
               apps |-> r.apps, cache |-> r.cache, sent |-> r.sent,
               transport |-> r.transport, listed |-> TRUE]

\* ------------------------------------------------------------------- Init
\* __init__: the cache starts as None; nothing has been requested or called.
NoCall ==
    [op |-> "none", username |-> "", game_name |-> None, transport |-> "none",
     vanity |-> NoVanity, outcome |-> "returned", steam_id |-> None, app_id |-> None,
     apps |-> <<>>, listed |-> FALSE, cache_before |-> None, requests_before |-> 0,
     all_empty_before |-> TRUE]

Init ==
    /\ app_list_cache = None
    /\ app_list_requests = 0
    /\ all_empty = TRUE
    /\ last = NoCall
    /\ pc = [t \in Threads |-> "start"]
    /\ passed = [t \in Threads |-> FALSE]
    /\ fetched = [t \in Threads |-> None]
    /\ returned = [t \in Threads |-> None]
    /\ writers = <<>>

\* --------------------------------------------- calls made one after another
Before ==
    [cache_before |-> app_list_cache, requests_before |-> app_list_requests,
     all_empty_before |-> all_empty]

GetSteamId ==
    \E username \in Usernames, resp \in VanityResponses :
        LET r == get_steam_id(username, resp) IN
        /\ last' = [NoCall EXCEPT !.op = "get_steam_id", !.username = username,
                      !.transport = Transport(resp), !.vanity = resp.body,
                      !.outcome = r.outcome, !.steam_id = r.steam_id,
                      !.cache_before = Before.cache_before,
                      !.requests_before = Before.requests_before,
                      !.all_empty_before = Before.all_empty_before]
        /\ UNCHANGED <<app_list_cache, app_list_requests, all_empty, threadVars>>

GetAppList ==
    \E resp \in Exchanges(app_list_cache, MaxApps) :
        LET r == get_app_list(app_list_cache, resp) IN
        /\ app_list_requests + r.sent <= MaxRequests
        /\ app_list_cache' = r.cache
        /\ app_list_requests' = app_list_requests + r.sent
        /\ all_empty' = (all_empty /\ (r.outcome # "returned" \/ Len(r.apps) = 0))
        /\ last' = [NoCall EXCEPT !.op = "get_app_list", !.transport = r.transport,
                      !.outcome = r.outcome, !.apps = r.apps,
                      !.listed = (r.outcome = "returned"),
                      !.cache_before = Before.cache_before,
                      !.requests_before = Before.requests_before,
                      !.all_empty_before = Before.all_empty_before]
        /\ UNCHANGED threadVars

FindAppId ==
    \E game_name \in GameNameArgs :
      \E resp \in IF ShortCircuit(game_name) THEN {NoResponse}
                  ELSE Exchanges(app_list_cache, MaxApps) :
        LET r == find_app_id(game_name, app_list_cache, resp) IN
        /\ app_list_requests + r.sent <= MaxRequests
        /\ app_list_cache' = r.cache
        /\ app_list_requests' = app_list_requests + r.sent
        /\ all_empty' = (all_empty /\ Len(r.apps) = 0)
        /\ last' = [NoCall EXCEPT !.op = "find_app_id", !.game_name = game_name,
                      !.transport = r.transport, !.outcome = r.outcome,
                      !.app_id = r.app_id, !.apps = r.apps, !.listed = r.listed,
                      !.cache_before = Before.cache_before,
                      !.requests_before = Before.requests_before,
                      !.all_empty_before = Before.all_empty_before]
        /\ UNCHANGED threadVars

Next == GetSteamId \/ GetAppList \/ FindAppId

Spec == Init /\ [][Next]_vars

\* ------------------------------- two threads, each calling get_app_list once
\* line 123: read self.app_list_cache and test it
T_Check(t) ==
    /\ pc[t] = "start"
    /\ passed' = [passed EXCEPT ![t] = NeedFetch(app_list_cache)]
    /\ pc' = [pc EXCEPT ![t] = IF NeedFetch(app_list_cache) THEN "request" ELSE "return"]
    /\ UNCHANGED <<seqVars, fetched, returned, writers>>

\* lines 124-126 and 130-132: the request, its status check and the JSON body,
\* all on locals; a caught failure returns [] from the handler
T_Request(t) ==
    /\ pc[t] = "request"
    /\ \E resp \in AppListResponses(MaxThreadApps) :
         LET exc == Raised(resp) IN
         /\ app_list_requests' = app_list_requests + 1
         /\ IF exc # "none"
            THEN /\ pc' = [pc EXCEPT ![t] = IF Caught(exc) THEN "done" ELSE "raised"]
                 /\ returned' = [returned EXCEPT ![t] = IF Caught(exc) THEN Some(<<>>) ELSE None]
                 /\ UNCHANGED fetched
            ELSE IF ~HasApps(resp.body)
            THEN /\ pc' = [pc EXCEPT ![t] = "raised"]
                 /\ UNCHANGED <<fetched, returned>>
            ELSE /\ pc' = [pc EXCEPT ![t] = "store"]
                 /\ fetched' = [fetched EXCEPT ![t] = Some(Apps(resp.body))]
                 /\ UNCHANGED returned
    /\ UNCHANGED <<app_list_cache, all_empty, last, passed, writers>>

\* line 127: the assignment to self.app_list_cache
T_Store(t) ==
    /\ pc[t] = "store"
    /\ app_list_cache' = StoreCache(app_list_cache, fetched[t][1])
    /\ writers' = Append(writers, t)
    /\ pc' = [pc EXCEPT ![t] = "return"]
    /\ UNCHANGED <<app_list_requests, all_empty, last, passed, fetched, returned>>

\* line 129: return self.app_list_cache, read again at the return
T_Return(t) ==
    /\ pc[t] = "return"
    /\ returned' = [returned EXCEPT ![t] = Some(app_list_cache[1])]
    /\ pc' = [pc EXCEPT ![t] = "done"]
    /\ UNCHANGED <<seqVars, passed, fetched, writers>>

NextThreads == \E t \in Threads : T_Check(t) \/ T_Request(t) \/ T_Store(t) \/ T_Return(t)

SpecThreads == Init /\ [][NextThreads]_vars

\* ================================================================== claims
\* vocabulary of the claims, stated without the operators of the model
HoldsAppList == app_list_cache # None /\ app_list_cache[1] # <<>>
TransportFailed == last.transport \in {"ConnectionError", "HTTPError"}
EmptyNameArg == last.game_name = None \/ last.game_name = Some(<<>>)
SameLetter(c, d) == c = d \/ {c, d} \in {{"c", "C"}, {"s", "S"}}
EqIgnoreCase(s, t) == Len(s) = Len(t) /\ \A i \in 1..Len(s) : SameLetter(s[i], t[i])
WellFormedList(apps) == \A i \in 1..Len(apps) : apps[i].name # None /\ apps[i].appid # None
Matches(apps, name) == {i \in 1..Len(apps) : EqIgnoreCase(apps[i].name[1], name)}
Latest(S) == CHOOSE i \in S : \A j \in S : j <= i
\* the last call ran get_app_list and the call returned a list of (name, appid) records
LookedUp ==
    /\ last.op = "find_app_id"
    /\ ~EmptyNameArg
    /\ last.listed
    /\ WellFormedList(last.apps)

\* C1: once the cache holds a non-empty app list, no step of any call sends
\* another app-list request or changes the cache, so the request that filled
\* the cache stays the only one from then on.
C1_FetchedOnce ==
    [][HoldsAppList =>
          /\ app_list_cache' = app_list_cache
          /\ app_list_requests' = app_list_requests]_vars
C1_Witness ==
    /\ HoldsAppList
    /\ last.op \in {"get_app_list", "find_app_id"}
    /\ last.cache_before = app_list_cache
    /\ last.transport = "none"
    /\ app_list_requests = 1

\* C2: a call whose HTTP request failed at transport level (no connection, or
\* a 4xx/5xx status) returns: None from get_steam_id, [] from get_app_list,
\* None from find_app_id; no exception reaches the caller.
C2_TransportFailureAbsorbed ==
    TransportFailed =>
        /\ last.outcome = "returned"
        /\ last.op = "get_steam_id" => last.steam_id = None
        /\ last.op = "get_app_list" => last.apps = <<>>
        /\ last.op = "find_app_id" => last.app_id = None
C2_Witness ==
    /\ last.op = "find_app_id"
    /\ last.transport = "HTTPError"
    /\ last.outcome = "returned"
    /\ last.app_id = None

\* C3: every call whose request got a successful (2xx) response returns a
\* value, whatever keys the body carries; no exception reaches the caller.
C3_AlwaysAValue == last.transport = "ok" => last.outcome = "returned"

\* C4: a get_app_list call whose request failed at transport level returns []
\* and leaves the cache exactly as it was, holding no app list; and a
\* get_app_list call that starts with a cache holding no app list sends the
\* request (so the call after a failure fetches again).
C4_FailureLeavesCacheUnset ==
    /\ (last.op = "get_app_list" /\ TransportFailed) =>
          /\ last.outcome = "returned"
          /\ last.apps = <<>>
          /\ app_list_cache = last.cache_before
          /\ ~HoldsAppList
    /\ (last.op = "get_app_list"
          /\ (last.cache_before = None \/ last.cache_before = Some(<<>>))) =>
          app_list_requests = last.requests_before + 1
C4_Witness ==
    /\ last.op = "get_app_list"
    /\ TransportFailed
    /\ last.cache_before = None
    /\ app_list_cache = None
    /\ last.requests_before = 1
    /\ app_list_requests = 2

\* C5: when no earlier get_app_list invocation (direct, or made by
\* find_app_id) has returned a non-empty list, a get_app_list invocation sends
\* a new app-list request.
C5_EmptyNeverCached ==
    (/\ last.all_empty_before
     /\ \/ last.op = "get_app_list"
        \/ last.op = "find_app_id" /\ ~EmptyNameArg) =>
        app_list_requests = last.requests_before + 1
C5_Witness ==
    /\ last.op = "get_app_list"
    /\ last.all_empty_before
    /\ last.cache_before = Some(<<>>)
    /\ last.requests_before = 1
    /\ app_list_requests = 2

\* C6: find_app_id with None or "" returns None, sends no request and leaves
\* the cache as it was.
C6_EmptyNameShortCircuits ==
    (last.op = "find_app_id" /\ EmptyNameArg) =>
        /\ last.outcome = "returned"
        /\ last.app_id = None
        /\ app_list_requests = last.requests_before
        /\ app_list_cache = last.cache_before
C6_Witness ==
    /\ last.op = "find_app_id"
    /\ last.game_name = Some(<<>>)
    /\ app_list_cache = None
    /\ app_list_requests = 0

\* C7: for a non-empty game name and a list of (name, appid) records returned
\* by get_app_list, find_app_id returns the appid of an entry whose name
\* equals the game name ignoring case when there is one (0 included), and
\* None when there is none.
C7_CaseInsensitiveLookup ==
    LookedUp =>
        LET m == Matches(last.apps, last.game_name[1]) IN
        /\ last.outcome = "returned"
        /\ m # {} => \E i \in m : last.app_id = Some(last.apps[i].appid[1])
        /\ m = {} => last.app_id = None
C7_Witness ==
    /\ LookedUp
    /\ last.game_name = Some(<<"C", "S">>)
    /\ last.apps = <<[name |-> Some(<<"c">>), appid |-> Some(10)],
                     [name |-> Some(<<"c", "s">>), appid |-> Some(0)]>>
    /\ last.app_id = Some(0)

\* C8: when several entries of the list match the game name ignoring case,
\* find_app_id returns the appid of the one that comes last in the list.
C8_LastOccurrenceWins ==
    (LookedUp /\ Matches(last.apps, last.game_name[1]) # {}) =>
        last.app_id = Some(last.apps[Latest(Matches(last.apps, last.game_name[1]))].appid[1])
C8_Witness ==
    /\ LookedUp
    /\ last.game_name = Some(<<"C", "s">>)
    /\ last.apps = <<[name |-> Some(<<"c", "s">>), appid |-> Some(10)],
                     [name |-> Some(<<"C", "S">>), appid |-> Some(0)]>>
    /\ last.app_id = Some(0)

\* C9 as stated: on a successful response whose body has a 'response' object,
\* get_steam_id returns X when steamid is present with value X, for every
\* string X, and returns None when steamid is missing.
C9_EveryString ==
    (/\ last.op = "get_steam_id"
     /\ last.transport = "ok"
     /\ last.vanity.response # None) =>
        /\ last.outcome = "returned"
        /\ last.steam_id = last.vanity.response[1].steamid

\* C9 amended: ... returns X when steamid is present with a non-empty value X,
\* and returns None when steamid is missing or is the empty string.
C9_EveryNonEmptyString ==
    (/\ last.op = "get_steam_id"
     /\ last.transport = "ok"
     /\ last.vanity.response # None) =>
        LET field == last.vanity.response[1].steamid IN
        /\ last.outcome = "returned"
        /\ (field # None /\ field # Some("")) => last.steam_id = field
        /\ (field = None \/ field = Some("")) => last.steam_id = None
C9_Witness ==
    /\ last.op = "get_steam_id"
    /\ last.transport = "ok"
    /\ last.vanity.response = Some([steamid |-> Some("76561197960287930")])
    /\ last.steam_id = Some("76561197960287930")

\* C10: two threads in get_app_list on a client with an empty cache: every
\* thread that passed the empty-cache check sent its own request, and once
\* both calls are over the cache holds the list stored by the last writer.
C10_LastWriterWins ==
    (\A t \in Threads : pc[t] \in {"done", "raised"}) =>
        /\ app_list_requests = Cardinality({t \in Threads : passed[t]})
        /\ writers # <<>> => app_list_cache = fetched[writers[Len(writers)]]
C10_Witness ==
    /\ \A t \in Threads : pc[t] = "done" /\ passed[t]
    /\ app_list_requests = 2
    /\ Len(writers) = 2
    /\ \A t \in Threads : fetched[t] # None /\ fetched[t][1] # <<>>
    /\ fetched[1] # fetched[2]
    /\ app_list_cache = fetched[writers[2]]
    /\ app_list_cache # fetched[writers[1]]
====
